---- MODULE Spec2Model ----
(***************************************************************************)
(* Model of backend/do_worker.py: the digital-output worker.  One worker   *)
(* loop (run_worker_loop) runs, per cycle, the enforcement pass            *)
(* (_enforce_auto_limit_restore), the dispatch pass                        *)
(* (process_pending_commands -> _execute_command) and a sleep.             *)
(*                                                                         *)
(* The database (db_helper) and the Modbus device (ModbusClient) are the   *)
(* environment: every call to them may return or raise, chosen with \E.    *)
(*                                                                         *)
(* Two facts of the source shape the model.                                *)
(*  - _execute_command line 41 reads the local name target_state, which    *)
(*    the function binds only on lines 44 and 46.  Python raises           *)
(*    UnboundLocalError there on every execution whose connect() returned  *)
(*    true, so lines 42-87 never run; the exception reaches the handler of *)
(*    process_pending_commands (lines 96-100).                             *)
(*  - the try: of _enforce_auto_limit_restore (line 137) has no except or *)
(*    finally clause (its clause sits after _record_do_event, lines        *)
(*    192-193), which Python rejects when it compiles the module.  The     *)
(*    functions are modelled by the statements they hold: nothing in the   *)
(*    pass catches an exception of a query, it leaves the function and     *)
(*    run_worker_loop (lines 209-212) drops it.                            *)
(***************************************************************************)
EXTENDS Integers, Sequences, FiniteSets, TLC

\* ---------------------------------------------------------------- bounds
MaxCycles == 2      \* cycles of run_worker_loop that are followed
MaxCmds == 3        \* rows app.DigitalOutputCommands can hold
BatchSize == 2      \* process_pending_commands(20), scaled down so that a
                    \* backlog larger than one batch is reachable

\* ------------------------------------------------------ program constants
DedupWindow == 5    \* DATEADD(SECOND, -5, GETUTCDATE())
PollInterval == 5   \* run_worker_loop(poll_interval_seconds = 5)
ShortInterval == 1  \* asyncio.sleep(... else 1)
DefaultMaxRetries == 3  \* "@MaxRetries": 3
CoilMin == 0
CoilMax == 9999

\* A nullable column holds NULL or Some(v).
NULL == <<>>
Some(v) == <<v>>

\* ------------------------------------------------------------ the tables
\* app.Users: UserID -> IsActive.  AllocatedKWh / UsedKWh are drawn in Init.
UserIDs == {1, 2, 3}
UserIsActive == [u \in UserIDs |-> u # 3]

\* The (AllocatedKWh, UsedKWh) pairs each account may start with.
UsageValues ==
    [u \in UserIDs |->
       CASE u = 1 -> { <<Some(100), Some(100)>>, <<Some(100), Some(50)>>, <<NULL, NULL>> }
         [] u = 2 -> { <<Some(0), Some(0)>>, <<Some(0), Some(1)>> }
         [] OTHER -> { <<Some(100), Some(120)>> }]

\* app.Analyzers, fixed: one row per case of the device filter.
Analyzers ==
    [a \in 1..9 |->
       CASE a = 1 -> [UserID |-> 1, IsActive |-> 1, Enabled |-> Some(1),   Coil |-> NULL,        IPAddress |-> "10.0.0.1"]
         [] a = 2 -> [UserID |-> 2, IsActive |-> 1, Enabled |-> Some(1),   Coil |-> Some(9999),  IPAddress |-> "10.0.0.2"]
         [] a = 3 -> [UserID |-> 1, IsActive |-> 0, Enabled |-> Some(1),   Coil |-> Some(0),     IPAddress |-> "10.0.0.3"]
         [] a = 4 -> [UserID |-> 2, IsActive |-> 1, Enabled |-> Some(0),   Coil |-> Some(5),     IPAddress |-> "10.0.0.4"]
         [] a = 5 -> [UserID |-> 1, IsActive |-> 1, Enabled |-> Some(1),   Coil |-> Some(10000), IPAddress |-> "10.0.0.5"]
         [] a = 6 -> [UserID |-> 2, IsActive |-> 1, Enabled |-> Some(1),   Coil |-> Some(-1),    IPAddress |-> "10.0.0.6"]
         [] a = 7 -> [UserID |-> 2, IsActive |-> 0, Enabled |-> Some(1),   Coil |-> Some(1),     IPAddress |-> "10.0.0.7"]
         [] a = 8 -> [UserID |-> 2, IsActive |-> 1, Enabled |-> NULL,      Coil |-> Some(2),     IPAddress |-> "10.0.0.8"]
         [] OTHER -> [UserID |-> 3, IsActive |-> 1, Enabled |-> Some(1),   Coil |-> Some(3),     IPAddress |-> "10.0.0.9"]]

\* The coil each device holds (the devices are not part of the program).
DeviceCoil == [a \in 1..9 |-> a % 2 = 1]

\* The first write_register attempt each device acknowledges (the devices are
\* not part of the program).
FirstAck == [a \in 1..9 |-> 1 + (a % 3)]

VARIABLES
    now,        \* GETUTCDATE(), in seconds
    pc,         \* where run_worker_loop is
    usage,      \* app.Users: UserID -> <<AllocatedKWh, UsedKWh>>
    cmds,       \* app.DigitalOutputCommands, CommandID = index
    users,      \* the rows of the users query, this pass
    ui,         \* index into users of the account being processed
    aids,       \* the rows of the analyzers query, this account
    ai,         \* index into aids
    submitted,  \* the _enqueue_do calls of this pass and what became of each
    enforce,    \* how this enforcement pass went
    batch,      \* cmds of process_pending_commands: the CommandIDs fetched
    bi,         \* index into batch
    execlog,    \* per command executed in this pass, the calls it made
    count,      \* count of run_worker_loop
    cycle,      \* the number of the current cycle of run_worker_loop
    dry,        \* dry of run_worker_loop: DRY_RUN was "true" at startup
    w2,         \* a second worker instance inside process_pending_commands
    rec         \* one call of _record_do_event: arguments, writes, outcome

vars == <<now, pc, usage, cmds, users, ui, aids, ai, submitted,
          enforce, batch, bi, execlog, count, cycle, dry, w2, rec>>

\* --------------------------------------------------------------- helpers
Range(s) == { s[x] : x \in DOMAIN s }

Take(s, n) == SubSeq(s, 1, IF n < Len(s) THEN n ELSE Len(s))

\* python's `x or 0`
OrZero(x) == IF x = NULL THEN 0 ELSE x[1]

\* All orders of a finite set.
Orders(S) ==
    { s \in [1..Cardinality(S) -> S] : \A x, y \in DOMAIN s : x # y => s[x] # s[y] }

\* Ascending sequence of a set of integers.
RECURSIVE Ascending(_)
Ascending(S) ==
    IF S = {} THEN <<>>
    ELSE LET m == CHOOSE x \in S : \A y \in S : x <= y
         IN <<m>> \o Ascending(S \ {m})

NoError == [tag |-> "null", detail |-> "null"]

\* no second worker instance runs
W2Off == [on |-> FALSE, pc |-> "off", batch |-> <<>>, bi |-> 0, execlog |-> <<>>]

\* _record_do_event is not being called
RecIdle == [phase |-> "idle"]

\* ------------------------------------------------- the enforcement pass
\* SELECT UserID, AllocatedKWh, UsedKWh FROM app.Users WHERE ISNULL(IsActive,1)=1
ActiveUsers == { u \in UserIDs : UserIsActive[u] }

\* SELECT AnalyzerID, ... FROM app.Analyzers WHERE UserID = ? AND IsActive = 1
ActiveAnalyzers(u) ==
    { a \in DOMAIN Analyzers : Analyzers[a].UserID = u /\ Analyzers[a].IsActive = 1 }

\* pct = (used / alloc * 100.0) if alloc > 0 else (100.0 if used > 0 else 0.0),
\* in whole percents (the comparison with 100 is the same: used/alloc*100 >= 100
\* exactly when the quotient is at least 1).
usage_pct(alloc, used) ==
    IF alloc > 0 THEN (used * 100) \div alloc
    ELSE IF used > 0 THEN 100 ELSE 0

\* the pct of account u: float(u.get(..) or 0.0) on both columns
Pct(u) == usage_pct(OrZero(usage[u][1]), OrZero(usage[u][2]))

\* mutant of Verb: the limit is reached only above 100 percent
Verb_strict(pct) == IF pct > 100 THEN "ON" ELSE "OFF"

\* if pct >= 100.0: "ON" else: "OFF"
Verb(pct) == IF pct >= 100 THEN "ON" ELSE "OFF"

\* the two `continue`s of the device loop
Skipped(a) ==
    \/ OrZero(Analyzers[a].Enabled) # 1
    \/ OrZero(Analyzers[a].Coil) < CoilMin
    \/ OrZero(Analyzers[a].Coil) > CoilMax

\* the rows of the dedup query: PENDING commands of the same analyzer, coil
\* and verb with RequestedAt >= now - 5 seconds
DedupRows(aid, coil, verb) ==
    { c \in DOMAIN cmds :
        /\ cmds[c].aid = aid /\ cmds[c].coil = coil /\ cmds[c].verb = verb
        /\ cmds[c].result = "PENDING"
        /\ cmds[c].reqAt >= now - DedupWindow }

\* mutant of _should_enqueue: `rows` for `not rows`
_should_enqueue_inverted(aid, coil, verb, lookupOk) ==
    IF lookupOk THEN DedupRows(aid, coil, verb) # {} ELSE TRUE

\* _should_enqueue: `not rows`, and True when the query raises
_should_enqueue(aid, coil, verb, lookupOk) ==
    IF lookupOk THEN DedupRows(aid, coil, verb) = {} ELSE TRUE

\* the row app.sp_ControlDigitalOutput inserts
NewCommand(aid, coil, verb) ==
    [aid |-> aid, coil |-> coil, verb |-> verb, reqAt |-> now,
     maxRetries |-> DefaultMaxRetries, result |-> "PENDING", err |-> NoError,
     writes |-> 0]

\* _enqueue_do: its return value; the insert happens when it returns TRUE
_enqueue_do(aid, coil, verb, lookupOk, insertOk) ==
    IF ~_should_enqueue(aid, coil, verb, lookupOk) THEN FALSE
    ELSE insertOk

\* what the loop over users does after the account at index i: the next
\* account, or the end of the pass (the locals of the pass are dropped by the
\* action that leaves it)
AfterAccount(i) ==
    IF i < Len(users)
    THEN /\ ui' = i + 1
         /\ pc' = "account"
         /\ enforce' = [enforce EXCEPT !.done = @ \cup {users[i]}]
    ELSE /\ ui' = 0
         /\ pc' = "dispatch"
         /\ enforce' = [enforce EXCEPT !.done = @ \cup {users[i]},
                                       !.status = "completed"]

\* no enforcement pass is running or has just ended
Idle == [status |-> "idle", failed |-> 0, done |-> {}]

\* the users query of _enforce_auto_limit_restore
EnforceStart ==
    /\ pc = "enforce"
    /\ submitted' = <<>>
    /\ aids' = <<>>
    /\ ai' = 0
    /\ \/ \* the query raises: the pass ends, run_worker_loop drops the error
          /\ users' = <<>>
          /\ ui' = 0
          /\ enforce' = [status |-> "aborted", failed |-> 0, done |-> {}]
          /\ pc' = "dispatch"
       \/ \E rows \in Orders(ActiveUsers) :
             /\ users' = IF rows = <<>> THEN <<>> ELSE rows
             /\ IF rows = <<>>
                THEN /\ ui' = 0
                     /\ enforce' = [status |-> "completed", failed |-> 0, done |-> {}]
                     /\ pc' = "dispatch"
                ELSE /\ ui' = 1
                     /\ enforce' = [status |-> "running", failed |-> 0, done |-> {}]
                     /\ pc' = "account"
    /\ UNCHANGED <<now, usage, cmds, batch, bi, execlog, count, cycle, dry, w2, rec>>

\* mutant of EnforceAccount: the error of the analyzers query is not caught
\* by run_worker_loop and ends the loop
EnforceAccount_crash ==
    /\ pc = "account"
    /\ LET u == users[ui] IN
       \/ /\ enforce' = [enforce EXCEPT !.status = "aborted", !.failed = u]
          /\ pc' = "crashed"
          /\ ui' = 0
          /\ users' = <<>>
          /\ UNCHANGED <<aids, ai>>
       \/ IF ActiveAnalyzers(u) = {}
          THEN /\ AfterAccount(ui)
               /\ users' = IF ui < Len(users) THEN users ELSE <<>>
               /\ UNCHANGED <<aids, ai>>
          ELSE /\ aids' = Ascending(ActiveAnalyzers(u))
               /\ ai' = 1
               /\ pc' = "device"
               /\ UNCHANGED <<ui, enforce, users>>
    /\ UNCHANGED <<now, usage, cmds, submitted, batch, bi, execlog, count, cycle, dry, w2, rec>>

\* one account: pct, then the analyzers query
EnforceAccount ==
    /\ pc = "account"
    /\ LET u == users[ui] IN
       \/ \* the analyzers query raises: no handler in the pass, it ends here
          /\ enforce' = [enforce EXCEPT !.status = "aborted", !.failed = u]
          /\ pc' = "dispatch"
          /\ ui' = 0
          /\ users' = <<>>
          /\ UNCHANGED <<aids, ai>>
       \/ IF ActiveAnalyzers(u) = {}
          THEN /\ AfterAccount(ui)
               /\ users' = IF ui < Len(users) THEN users ELSE <<>>
               /\ UNCHANGED <<aids, ai>>
          ELSE /\ aids' = Ascending(ActiveAnalyzers(u))
               /\ ai' = 1
               /\ pc' = "device"
               /\ UNCHANGED <<ui, enforce, users>>
    /\ UNCHANGED <<now, usage, cmds, submitted, batch, bi, execlog, count, cycle, dry, w2, rec>>

\* one device of the account: skip it, or submit its corrective command
EnforceDevice ==
    /\ pc = "device"
    /\ LET a == aids[ai]
           u == users[ui]
           coil == OrZero(Analyzers[a].Coil)
           verb == Verb(Pct(u))
       IN
       /\ IF Skipped(a)
          THEN UNCHANGED <<cmds, submitted>>
          ELSE \E lookupOk \in BOOLEAN :
               \E insertOk \in (IF Len(cmds) < MaxCmds THEN BOOLEAN ELSE {FALSE}) :
                 LET stored == _enqueue_do(a, coil, verb, lookupOk, insertOk) IN
                 /\ cmds' = IF stored
                            THEN Append(cmds, NewCommand(a, coil, verb))
                            ELSE cmds
                 /\ submitted' = Append(submitted,
                       [aid |-> a, coil |-> coil, verb |-> verb, at |-> now,
                        lookup |-> IF ~lookupOk THEN "error"
                                   ELSE IF DedupRows(a, coil, verb) = {} THEN "none"
                                   ELSE "rows",
                        stored |-> stored])
       /\ IF ai < Len(aids)
          THEN /\ ai' = ai + 1
               /\ UNCHANGED <<pc, ui, enforce, users, aids>>
          ELSE /\ ai' = 0
               /\ aids' = <<>>
               /\ AfterAccount(ui)
               /\ users' = IF ui < Len(users) THEN users ELSE <<>>
    /\ UNCHANGED <<now, usage, batch, bi, execlog, count, cycle, dry, w2, rec>>

\* --------------------------------------------------- the dispatch pass
Pending == { c \in DOMAIN cmds : cmds[c].result = "PENDING" }

\* mutant of _get_pending_commands: ORDER BY RequestedAt DESC
_get_pending_commands_desc(limit) ==
    { Take(s, limit) :
        s \in { o \in Orders(Pending) :
                  \A x, y \in DOMAIN o : x < y => cmds[o[x]].reqAt >= cmds[o[y]].reqAt } }

\* mutant of _get_pending_commands: the WHERE ExecutionResult = 'PENDING'
\* filter is missing
_get_pending_commands_all(limit) ==
    { Take(s, limit) :
        s \in { o \in Orders(DOMAIN cmds) :
                  \A x, y \in DOMAIN o : x < y => cmds[o[x]].reqAt <= cmds[o[y]].reqAt } }

\* _get_pending_commands: SELECT TOP (limit) ... WHERE ExecutionResult =
\* 'PENDING' ORDER BY RequestedAt ASC.  Rows of equal RequestedAt come in any
\* order, so this is the set of lists the query may return.
_get_pending_commands(limit) ==
    { Take(s, limit) :
        s \in { o \in Orders(Pending) :
                  \A x, y \in DOMAIN o : x < y => cmds[o[x]].reqAt <= cmds[o[y]].reqAt } }

\* _update_result, when the stored procedure succeeds
_update_result(table, c, result, err) ==
    [table EXCEPT ![c].result = result, ![c].err = err, ![c].writes = @ + 1]

Call(name, outcome) == [call |-> name, outcome |-> outcome]

\* target_state_bool = {"ON": True, "OFF": False}.get(command)
target_state_bool(verb) ==
    CASE verb = "ON" -> Some(TRUE)
      [] verb = "OFF" -> Some(FALSE)
      [] OTHER -> NULL

\* target_value = 1 if target_state_bool else 0
target_value(tsb) == IF tsb = Some(TRUE) THEN 1 ELSE 0

\* the locals that lines 39-40 have bound when line 41 is reached
LocalsAt41(c) ==
    Some([target_state_bool |-> target_state_bool(cmds[c].verb),
          target_value |-> target_value(target_state_bool(cmds[c].verb))])

\* mutant of _execute_command: the `return` after the connect_failed result
\* is missing, so the function goes on to lines 39-41
_execute_command_noreturn(c, conn, upd) ==
    LET host == Analyzers[cmds[c].aid].IPAddress IN
    IF conn = "false"
    THEN IF upd
         THEN [trace |-> <<Call("connect", "false"), Call("update_result", "ok")>>,
               raised |-> "UnboundLocalError", locals |-> LocalsAt41(c),
               table |-> _update_result(cmds, c, "FAILED",
                            [tag |-> "connect_failed", detail |-> host])]
         ELSE [trace |-> <<Call("connect", "false"), Call("update_result", "raise")>>,
               raised |-> "db_error", locals |-> NULL,
               table |-> cmds]
    ELSE [trace |-> <<Call("connect", "true")>>, raised |-> "UnboundLocalError",
          locals |-> LocalsAt41(c), table |-> cmds]

\* _execute_command(cmd) for command c, given what connect() does (conn) and
\* whether the stored procedure of _update_result succeeds (upd).
\*   trace  the calls made, in order
\*   raised the exception that leaves the function ("none": it returns)
\*   table  the commands table when the function is left
\*   locals target_state_bool and target_value, once lines 39-40 have run
_execute_command(c, conn, upd) ==
    LET host == Analyzers[cmds[c].aid].IPAddress IN
    IF conn = "false"
    THEN \* if not ok: _update_result(FAILED, connect_failed:host); return
         IF upd
         THEN [trace |-> <<Call("connect", "false"), Call("update_result", "ok")>>,
               raised |-> "none", locals |-> NULL,
               table |-> _update_result(cmds, c, "FAILED",
                            [tag |-> "connect_failed", detail |-> host])]
         ELSE [trace |-> <<Call("connect", "false"), Call("update_result", "raise")>>,
               raised |-> "db_error", locals |-> NULL,
               table |-> cmds]
    ELSE \* lines 39-41: target_state_bool and target_value are bound, then
         \* `if target_state is None` reads a local that nothing has bound
         [trace |-> <<Call("connect", "true")>>, raised |-> "UnboundLocalError",
          locals |-> LocalsAt41(c), table |-> cmds]

\* mutant of process_one: no handler around _execute_command, an exception
\* leaves the loop
process_one_nocatch(c, conn, upd, fb) ==
    LET r == _execute_command(c, conn, upd) IN
    [trace |-> r.trace, raised |-> r.raised, table |-> r.table,
     locals |-> r.locals, escapes |-> r.raised # "none"]

\* mutant of process_one: the fallback write runs after every command (a
\* `finally` for the `except`)
process_one_finally(c, conn, upd, fb) ==
    LET r == _execute_command(c, conn, upd) IN
    IF fb
    THEN [trace |-> Append(r.trace, Call("fallback_update", "ok")),
          raised |-> r.raised,
          table |-> _update_result(r.table, c, "FAILED",
                       [tag |-> "unexpected", detail |-> r.raised]),
          locals |-> r.locals, escapes |-> FALSE]
    ELSE [trace |-> Append(r.trace, Call("fallback_update", "raise")),
          raised |-> r.raised, table |-> r.table, locals |-> r.locals,
          escapes |-> FALSE]

\* mutant of process_one: the handler of lines 96-100 is a bare `pass`, it
\* writes no result
process_one_nofallback(c, conn, upd, fb) ==
    LET r == _execute_command(c, conn, upd) IN
    [trace |-> r.trace, raised |-> r.raised, table |-> r.table,
     locals |-> r.locals, escapes |-> FALSE]

\* the body of the loop of process_pending_commands for command c: the call
\* of _execute_command and the handler of lines 96-100 (fb: the stored
\* procedure of the fallback _update_result succeeds).
\*   escapes  an exception leaves the loop body (never: the handler catches
\*            Exception and the handler's own failure)
process_one(c, conn, upd, fb) ==
    LET r == _execute_command(c, conn, upd) IN
    IF r.raised = "none"
    THEN [trace |-> r.trace, raised |-> "none", table |-> r.table,
          locals |-> r.locals, escapes |-> FALSE]
    ELSE IF fb
    THEN [trace |-> Append(r.trace, Call("fallback_update", "ok")),
          raised |-> r.raised,
          table |-> _update_result(r.table, c, "FAILED",
                       [tag |-> "unexpected", detail |-> r.raised]),
          locals |-> r.locals, escapes |-> FALSE]
    ELSE [trace |-> Append(r.trace, Call("fallback_update", "raise")),
          raised |-> r.raised, table |-> r.table, locals |-> r.locals,
          escapes |-> FALSE]

\* mutant of SleepFor: the two intervals swapped
SleepFor_swapped(n) == IF n = 0 THEN ShortInterval ELSE PollInterval

\* asyncio.sleep(poll_interval_seconds if count == 0 else 1)
SleepFor(n) == IF n = 0 THEN PollInterval ELSE ShortInterval

\* cmds = _get_pending_commands(batch_size); if not cmds: return 0
Fetch ==
    /\ pc = "dispatch"
    /\ execlog' = <<>>
    /\ submitted' = <<>>
    /\ enforce' = Idle
    /\ \/ \* the query raises: run_worker_loop sets count = 0
          /\ batch' = <<>>
          /\ bi' = 0
          /\ count' = 0
          /\ pc' = "sleep"
       \/ \E rows \in _get_pending_commands(BatchSize) :
             /\ batch' = rows
             /\ IF rows = <<>>
                THEN /\ bi' = 0
                     /\ count' = 0
                     /\ pc' = "sleep"
                ELSE /\ bi' = 1
                     /\ count' = count
                     /\ pc' = "exec"
    /\ UNCHANGED <<now, usage, cmds, users, ui, aids, ai, cycle, dry, w2, rec>>

\* one turn of `for cmd in cmds`, and `return len(cmds)` after the last
ExecuteNext ==
    /\ pc = "exec"
    /\ \E conn \in {"true", "false"}, upd \in BOOLEAN, fb \in BOOLEAN :
         LET c == batch[bi]
             r == process_one(c, conn, upd, fb)
         IN
         /\ cmds' = r.table
         /\ execlog' = Append(execlog,
                [id |-> c, trace |-> r.trace, raised |-> r.raised,
                 locals |-> r.locals])
         /\ IF r.escapes
            THEN \* process_pending_commands raises: count = 0
                 /\ count' = 0
                 /\ pc' = "sleep"
                 /\ bi' = bi
            ELSE IF bi < Len(batch)
            THEN /\ bi' = bi + 1
                 /\ UNCHANGED <<count, pc>>
            ELSE /\ bi' = bi
                 /\ count' = Len(batch)
                 /\ pc' = "sleep"
    /\ UNCHANGED <<now, usage, users, ui, aids, ai, submitted, enforce, batch, cycle, dry, w2, rec>>

\* mutant of DrySleep: `if dry:` sleeps once and goes on to the active loop
DrySleep_once ==
    /\ pc = "dry"
    /\ cycle < MaxCycles
    /\ cycle' = cycle + 1
    /\ now' = now + PollInterval
    /\ pc' = "enforce"
    /\ UNCHANGED <<usage, cmds, users, ui, aids, ai, submitted, enforce,
                   batch, bi, execlog, count, dry, w2, rec>>

\* if dry: while True: await asyncio.sleep(poll_interval_seconds)
DrySleep ==
    /\ pc = "dry"
    /\ cycle < MaxCycles
    /\ cycle' = cycle + 1
    /\ now' = now + PollInterval
    /\ UNCHANGED <<pc, usage, cmds, users, ui, aids, ai, submitted, enforce,
                   batch, bi, execlog, count, dry, w2, rec>>

\* await asyncio.sleep(...), then the next cycle
Sleep ==
    /\ pc = "sleep"
    /\ cycle < MaxCycles
    /\ cycle' = cycle + 1
    /\ now' = now + SleepFor(count)
    /\ pc' = "enforce"
    /\ batch' = <<>>
    /\ bi' = 0
    /\ execlog' = <<>>
    /\ UNCHANGED <<usage, cmds, users, ui, aids, ai, submitted, enforce, count, dry, w2, rec>>

\* ----------------------------------------------------- the specification
\* A command a user requested before the worker started (the requester's
\* insert is not part of this program).
UserToggle ==
    [aid |-> 2, coil |-> 9999, verb |-> "TOGGLE", reqAt |-> -1,
     maxRetries |-> DefaultMaxRetries, result |-> "PENDING", err |-> NoError,
     writes |-> 0]

\* The accounts' usage in the runs that start with a command in the store.
UsageWithBacklog ==
    [u \in UserIDs |->
       CASE u = 1 -> <<Some(100), Some(50)>>
         [] u = 2 -> <<Some(0), Some(1)>>
         [] OTHER -> <<Some(100), Some(120)>>]

\* run_worker_loop up to its loops: dry = (DRY_RUN == "true")
Init ==
    /\ now = 0
    /\ dry \in BOOLEAN
    /\ pc = IF dry THEN "dry" ELSE "enforce"
    /\ usage \in [UserIDs -> UNION { UsageValues[u] : u \in UserIDs }]
    /\ \A u \in UserIDs : usage[u] \in UsageValues[u]
    /\ cmds \in {<<>>, <<UserToggle>>}
    /\ (dry \/ cmds # <<>>) => usage = UsageWithBacklog
    /\ users = <<>>
    /\ ui = 0
    /\ aids = <<>>
    /\ ai = 0
    /\ submitted = <<>>
    /\ enforce = Idle
    /\ batch = <<>>
    /\ bi = 0
    /\ execlog = <<>>
    /\ count = 0
    /\ cycle = 1
    /\ w2 = W2Off
    /\ rec = RecIdle

Next ==
    \/ EnforceStart
    \/ EnforceAccount
    \/ EnforceDevice
    \/ Fetch
    \/ ExecuteNext
    \/ Sleep
    \/ DrySleep

Spec == Init /\ [][Next]_vars

TypeOK ==
    /\ now \in 0..(PollInterval * MaxCycles)
    /\ cycle \in 1..MaxCycles
    /\ pc \in {"enforce", "account", "device", "dispatch", "exec", "sleep", "dry"}
    /\ Len(cmds) <= MaxCmds
    /\ \A c \in DOMAIN cmds : cmds[c].result \in {"PENDING", "SUCCESS", "FAILED"}

\* ------------------------------------------ _record_do_event on its own
\* The values of source_note: None (and "", which `if source_note:` treats
\* alike), or a text of parts joined by ";", a part "key=value" written
\* <<key, value>>.  _enqueue_do writes "source=<source>;reason=<reason>".
SourceNotes ==
    { NULL,
      << <<"source", "auto_limit">>, <<"reason", "Units exceeded 100%">> >>,
      << <<"reason", "x">>, <<"source", "api">>, <<"source", "late">> >>,
      << <<"reason", "Recharge completed">> >> }

\* src = "system"; for part in str(source_note).split(";"):
\*     if part.strip().startswith("source="): src = part.split("=",1)[1].strip(); break
RECURSIVE src(_)
src(source_note) ==
    IF source_note = <<>> THEN "system"
    ELSE IF Head(source_note)[1] = "source" THEN Head(source_note)[2]
    ELSE src(Tail(source_note))

\* the parameters of the UPDATE app.DigitalOutputStatus
StatusRow(analyzer_id, new_state, source_note) ==
    [AnalyzerID |-> analyzer_id, State |-> new_state,
     UpdateSource |-> src(source_note)]

\* the parameters of the INSERT INTO ops.Events
EventRow(analyzer_id, old_state, new_state, control_type, success, source_note) ==
    [AnalyzerID |-> analyzer_id,
     Level |-> IF success THEN "INFO" ELSE "ERROR",
     EventType |-> IF success THEN "do_control" ELSE "do_control_failed",
     Message |-> IF new_state = 1 THEN "DO ON" ELSE "DO OFF",
     Source |-> src(source_note),
     MetaData |-> [old_state |-> old_state, new_state |-> new_state,
                   type |-> control_type, notes |-> source_note]]

\* mutant of _record_do_event: the body without its try/except
_record_do_event_unguarded(analyzer_id, old_state, new_state, control_type, success, source_note, statusOk, insertOk) ==
    IF ~statusOk
    THEN [trace |-> <<Call("update_status", "raise")>>,
          status |-> NULL, event |-> NULL, raised |-> "db_error"]
    ELSE IF ~insertOk
    THEN [trace |-> <<Call("update_status", "ok"), Call("insert_event", "raise")>>,
          status |-> Some(StatusRow(analyzer_id, new_state, source_note)),
          event |-> NULL, raised |-> "db_error"]
    ELSE [trace |-> <<Call("update_status", "ok"), Call("insert_event", "ok")>>,
          status |-> Some(StatusRow(analyzer_id, new_state, source_note)),
          event |-> Some(EventRow(analyzer_id, old_state, new_state,
                                  control_type, success, source_note)),
          raised |-> "none"]

\* _record_do_event(...), given whether the UPDATE (statusOk) and the INSERT
\* (insertOk) succeed: both sit in one try whose handler is `pass`, so a
\* failed UPDATE skips the INSERT and nothing is raised.
_record_do_event(analyzer_id, old_state, new_state, control_type, success, source_note, statusOk, insertOk) ==
    IF ~statusOk
    THEN [trace |-> <<Call("update_status", "raise")>>,
          status |-> NULL, event |-> NULL, raised |-> "none"]
    ELSE IF ~insertOk
    THEN [trace |-> <<Call("update_status", "ok"), Call("insert_event", "raise")>>,
          status |-> Some(StatusRow(analyzer_id, new_state, source_note)),
          event |-> NULL, raised |-> "none"]
    ELSE [trace |-> <<Call("update_status", "ok"), Call("insert_event", "ok")>>,
          status |-> Some(StatusRow(analyzer_id, new_state, source_note)),
          event |-> Some(EventRow(analyzer_id, old_state, new_state,
                                  control_type, success, source_note)),
          raised |-> "none"]

\* "manual" if command in ("ON","OFF","TOGGLE") else "auto"
ControlType(command) ==
    IF command \in {"ON", "OFF", "TOGGLE"} THEN "manual" ELSE "auto"

\* the old_state argument of lines 84 and 87
OldState(command, success) ==
    IF ~success THEN NULL
    ELSE IF target_state_bool(command) = NULL THEN Some(0)
    ELSE Some(1 - target_value(target_state_bool(command)))

\* last_error or "unknown_error"
ErrorOr(last_error) ==
    IF last_error = NoError THEN [tag |-> "unknown_error", detail |-> "null"]
    ELSE last_error

\* the handler of lines 96-100 for an exception that left _execute_command
Fallback(table, c, raised, fb) ==
    IF fb THEN _update_result(table, c, "FAILED",
                   [tag |-> "unexpected", detail |-> raised])
    ELSE table

\* Lines 82-87 entered with every value success, last_error and the command
\* can have there, for one command in the store.
InitRecorder ==
    /\ now = 0
    /\ dry = FALSE
    /\ pc = "record"
    /\ usage = UsageWithBacklog
    /\ \E a \in {1, 2}, verb \in {"ON", "OFF", "TOGGLE"} :
          cmds = << [UserToggle EXCEPT !.aid = a, !.verb = verb,
                        !.coil = OrZero(Analyzers[a].Coil)] >>
    /\ users = <<>> /\ ui = 0 /\ aids = <<>> /\ ai = 0
    /\ submitted = <<>> /\ enforce = Idle
    /\ batch = <<1>> /\ bi = 1 /\ execlog = <<>>
    /\ count = 0 /\ cycle = 1 /\ w2 = W2Off
    /\ \E success \in BOOLEAN, note \in SourceNotes,
          last_error \in {NoError, [tag |-> "attempt_failed", detail |-> "3"]} :
          /\ success => last_error = NoError
          /\ rec = [phase |-> "result", success |-> success,
                    last_error |-> last_error, source_note |-> note,
                    written |-> NULL, trace |-> <<>>, status |-> NULL,
                    event |-> NULL, raised |-> "none"]

\* if success: _update_result(SUCCESS, None) else: _update_result(FAILED,
\* last_error or "unknown_error"); when it raises, the handler of lines
\* 96-100 takes over
RecordResult ==
    /\ pc = "record"
    /\ rec.phase = "result"
    /\ \E upd \in BOOLEAN, fb \in BOOLEAN :
         IF upd
         THEN /\ cmds' = _update_result(cmds, 1,
                            IF rec.success THEN "SUCCESS" ELSE "FAILED",
                            IF rec.success THEN NoError ELSE ErrorOr(rec.last_error))
              /\ rec' = [rec EXCEPT !.phase = "event",
                            !.written = Some(<<cmds'[1].result, cmds'[1].err>>)]
         ELSE /\ cmds' = Fallback(cmds, 1, "db_error", fb)
              /\ rec' = [rec EXCEPT !.phase = "done", !.raised = "db_error"]
    /\ UNCHANGED <<now, pc, usage, users, ui, aids, ai, submitted, enforce,
                   batch, bi, execlog, count, cycle, dry, w2>>

\* the _record_do_event call of line 84 or 87, and the handler of lines
\* 96-100 should the call raise
RecordEvent ==
    /\ pc = "record"
    /\ rec.phase = "event"
    /\ \E statusOk \in BOOLEAN, insertOk \in BOOLEAN, fb \in BOOLEAN :
         LET command == cmds[1].verb
             r == _record_do_event(cmds[1].aid,
                      OldState(command, rec.success),
                      target_value(target_state_bool(command)),
                      ControlType(command), rec.success, rec.source_note,
                      statusOk, insertOk)
         IN
         /\ rec' = [rec EXCEPT !.phase = "done", !.trace = r.trace,
                       !.status = r.status, !.event = r.event,
                       !.raised = r.raised]
         /\ cmds' = IF r.raised = "none" THEN cmds
                    ELSE Fallback(cmds, 1, r.raised, fb)
    /\ UNCHANGED <<now, pc, usage, users, ui, aids, ai, submitted, enforce,
                   batch, bi, execlog, count, cycle, dry, w2>>

NextRecorder == RecordResult \/ RecordEvent

SpecRecorder == InitRecorder /\ [][NextRecorder]_vars

\* ------------------------------ two workers in process_pending_commands
\* A store with two PENDING commands, and one worker, or two, about to call
\* process_pending_commands.
RestoreOff ==
    [aid |-> 1, coil |-> 0, verb |-> "OFF", reqAt |-> 0,
     maxRetries |-> DefaultMaxRetries, result |-> "PENDING", err |-> NoError,
     writes |-> 0]

Init2W ==
    /\ now = 0
    /\ dry = FALSE
    /\ pc = "dispatch"
    /\ usage = UsageWithBacklog
    /\ cmds = <<UserToggle, RestoreOff>>
    /\ users = <<>> /\ ui = 0 /\ aids = <<>> /\ ai = 0
    /\ submitted = <<>> /\ enforce = Idle
    /\ batch = <<>> /\ bi = 0 /\ execlog = <<>>
    /\ count = 0 /\ cycle = 1 /\ rec = RecIdle
    /\ \E on \in BOOLEAN :
          w2 = [W2Off EXCEPT !.on = on,
                             !.pc = IF on THEN "dispatch" ELSE "off"]

\* the second worker: cmds = _get_pending_commands(batch_size)
Fetch2 ==
    /\ w2.pc = "dispatch"
    /\ \/ \* the query raises
          w2' = [w2 EXCEPT !.pc = "done"]
       \/ \E rows \in _get_pending_commands(BatchSize) :
             w2' = [w2 EXCEPT !.batch = rows,
                              !.bi = IF rows = <<>> THEN 0 ELSE 1,
                              !.pc = IF rows = <<>> THEN "done" ELSE "exec"]
    /\ UNCHANGED <<now, pc, usage, cmds, users, ui, aids, ai, submitted,
                   enforce, batch, bi, execlog, count, cycle, dry, rec>>

\* the second worker: one turn of `for cmd in cmds`
ExecuteNext2 ==
    /\ w2.pc = "exec"
    /\ \E conn \in {"true", "false"}, upd \in BOOLEAN, fb \in BOOLEAN :
         LET c == w2.batch[w2.bi]
             r == process_one(c, conn, upd, fb)
         IN
         /\ cmds' = r.table
         /\ w2' = [w2 EXCEPT
                      !.execlog = Append(w2.execlog,
                          [id |-> c, trace |-> r.trace, raised |-> r.raised,
                           locals |-> r.locals]),
                      !.bi = IF ~r.escapes /\ w2.bi < Len(w2.batch)
                             THEN w2.bi + 1 ELSE w2.bi,
                      !.pc = IF ~r.escapes /\ w2.bi < Len(w2.batch)
                             THEN "exec" ELSE "done"]
    /\ UNCHANGED <<now, pc, usage, users, ui, aids, ai, submitted, enforce,
                   batch, bi, execlog, count, cycle, dry, rec>>

Next2W == Fetch \/ ExecuteNext \/ Fetch2 \/ ExecuteNext2

Spec2W == Init2W /\ [][Next2W]_vars

\* ------------------------------------- the active loop without faults
\* The Command Store answers: no result write and no fetch has raised.
NoFault ==
    /\ \A k \in DOMAIN execlog :
          \A j \in DOMAIN execlog[k].trace :
             execlog[k].trace[j].outcome # "raise"
    /\ (pc = "sleep" /\ batch = <<>>) => Pending = {}

NextProgress == Next /\ NoFault'

\* run_worker_loop is the only task of its event loop: while a step is
\* possible it is taken.
SpecProgress == Init /\ [][NextProgress]_vars /\ WF_vars(NextProgress)

\* ------------------------------------------------------------ the claims
\* the calls of one execution
NumCalls(trace, names) ==
    Cardinality({ k \in DOMAIN trace : trace[k].call \in names })

NumCallsWith(trace, names, outcome) ==
    Cardinality({ k \in DOMAIN trace :
                    trace[k].call \in names /\ trace[k].outcome = outcome })

ResultWrites == {"update_result", "fallback_update"}
DeviceReads == {"read_coil_state"}
DeviceWrites == {"write_register"}
Backoffs == {"sleep"}
AuditWrites == {"insert_event"}
StatusWrites == {"update_status"}

Connected(e) == e.trace[1] = Call("connect", "true")
Refused(e) == e.trace[1] = Call("connect", "false")

\* {"ON": True, "OFF": False}: the target state of a verb
TargetOf(verb) == verb = "ON"

\* max_retries = int(cmd.get("MaxRetries") or 3)
RetriesOf(c) == IF cmds[c].maxRetries = 0 THEN 3 ELSE cmds[c].maxRetries

\* C1 (as claimed; the code violates it): an executed ON/OFF command whose
\* connection succeeded and whose device already holds the target state makes
\* no write_register call and ends SUCCESS with no error message.
C1_Idempotence ==
    \A k \in DOMAIN execlog :
       LET e == execlog[k]
           c == cmds[e.id]
       IN (/\ Connected(e)
           /\ c.verb \in {"ON", "OFF"}
           /\ DeviceCoil[c.aid] = TargetOf(c.verb))
          => /\ NumCalls(e.trace, DeviceWrites) = 0
             /\ c.result = "SUCCESS"
             /\ c.err = NoError

\* C2 (as claimed; the code violates it): a connected command whose device
\* state differs from the target and whose writes all fail makes exactly
\* max_retries write_register calls and max_retries - 1 backoff waits, and
\* ends FAILED with the error of the last attempt.
C2_RetryBound ==
    \A k \in DOMAIN execlog :
       LET e == execlog[k]
           c == cmds[e.id]
           n == RetriesOf(e.id)
       IN (/\ Connected(e)
           /\ c.verb \in {"ON", "OFF"}
           /\ DeviceCoil[c.aid] # TargetOf(c.verb)
           /\ NumCallsWith(e.trace, DeviceWrites, "true") = 0)
          => /\ NumCalls(e.trace, DeviceWrites) = n
             /\ NumCalls(e.trace, Backoffs) = n - 1
             /\ c.result = "FAILED"
             /\ c.err.tag \in {"attempt_failed", "attempt_error"}

\* C3 (as claimed): whenever connect() returns false the command ends FAILED
\* with connect_failed:<address>, and the execution makes no coil read, no
\* register write, no backoff wait, no audit event and no status update.
C3_Original ==
    \A k \in DOMAIN execlog :
       LET e == execlog[k]
           c == cmds[e.id]
       IN Refused(e)
          => /\ c.result = "FAILED"
             /\ c.err = [tag |-> "connect_failed",
                         detail |-> Analyzers[c.aid].IPAddress]
             /\ NumCalls(e.trace, DeviceReads \cup DeviceWrites \cup Backoffs
                                   \cup AuditWrites \cup StatusWrites) = 0

\* C3 (amended): whenever connect() returns false, no coil read, register
\* write, backoff wait, audit event or status update is made, the only call
\* after connect is the result write, and if that write succeeds it is the
\* last call and the command is FAILED with connect_failed:<address>; if it
\* raises, the fallback of the dispatch loop decides (FAILED unexpected, or
\* still PENDING when the fallback write raises too).
C3_ConnectFailure ==
    \A k \in DOMAIN execlog :
       LET e == execlog[k]
           c == cmds[e.id]
       IN Refused(e)
          => /\ NumCalls(e.trace, DeviceReads \cup DeviceWrites \cup Backoffs
                                   \cup AuditWrites \cup StatusWrites) = 0
             /\ Len(e.trace) >= 2
             /\ e.trace[2].call = "update_result"
             /\ e.trace[2].outcome = "ok"
                  => /\ Len(e.trace) = 2
                     /\ e.raised = "none"
                     /\ c.result = "FAILED"
                     /\ c.err = [tag |-> "connect_failed",
                                 detail |-> Analyzers[c.aid].IPAddress]
             /\ e.trace[2].outcome = "raise"
                  => /\ Len(e.trace) = 3
                     /\ e.trace[3].call = "fallback_update"
                     /\ IF e.trace[3].outcome = "ok"
                        THEN c.result = "FAILED" /\ c.err.tag = "unexpected"
                        ELSE c.result = "PENDING"

C3_Witness ==
    \E k \in DOMAIN execlog :
       /\ Refused(execlog[k])
       /\ execlog[k].trace[2] = Call("update_result", "ok")
       /\ cmds[execlog[k].id].err.tag = "connect_failed"

\* the result writes of one execution that took effect / that were called
OkResultWrites(e) == NumCallsWith(e.trace, ResultWrites, "ok")
ResultWriteCalls(e) == NumCalls(e.trace, ResultWrites)

\* C4 (as claimed): every execution of a fetched command performs exactly
\* one result write, at most one audit-event write and at most one
\* status-snapshot write, and no command ever receives two result writes.
C4_Original ==
    /\ \A k \in DOMAIN execlog :
          /\ OkResultWrites(execlog[k]) = 1
          /\ NumCalls(execlog[k].trace, AuditWrites) <= 1
          /\ NumCalls(execlog[k].trace, StatusWrites) <= 1
    /\ \A c \in DOMAIN cmds : cmds[c].writes <= 1

\* C4 (amended): every execution makes at most one result write that takes
\* effect, exactly one when no result write raises, and at most two result
\* write calls (the second is the fallback, made only after an exception); a
\* command whose result writes all raised stays PENDING; at most one
\* audit-event write and one status-snapshot write are made; no command
\* ever receives two result writes that took effect.
C4_OneResultWrite ==
    /\ \A k \in DOMAIN execlog :
          LET e == execlog[k] IN
          /\ OkResultWrites(e) <= 1
          /\ ResultWriteCalls(e) \in {1, 2}
          /\ NumCallsWith(e.trace, ResultWrites, "raise") = 0 => OkResultWrites(e) = 1
          /\ NumCalls(e.trace, {"fallback_update"}) = 1 <=> e.raised # "none"
          /\ OkResultWrites(e) = 0 => cmds[e.id].result = "PENDING"
          /\ OkResultWrites(e) = 1 => cmds[e.id].result # "PENDING"
          /\ NumCalls(e.trace, AuditWrites) <= 1
          /\ NumCalls(e.trace, StatusWrites) <= 1
    /\ \A c \in DOMAIN cmds :
          /\ cmds[c].writes <= 1
          /\ cmds[c].writes = 0 <=> cmds[c].result = "PENDING"

C4_Witness ==
    \E k \in DOMAIN execlog :
       /\ ResultWriteCalls(execlog[k]) = 2
       /\ OkResultWrites(execlog[k]) = 1
       /\ cmds[execlog[k].id].writes = 1

\* the PENDING commands of the key of submission s requested less than 5
\* seconds before it
SameKeyBefore(s) ==
    { c \in DOMAIN cmds :
        /\ cmds[c].aid = s.aid /\ cmds[c].coil = s.coil /\ cmds[c].verb = s.verb
        /\ cmds[c].result = "PENDING"
        /\ s.at - cmds[c].reqAt < 5 }

\* C5 (as claimed): of two enqueue requests for the same device, coil and
\* verb made less than 5 seconds apart at most one is stored, whatever happens
\* between them.
C5_Original ==
    \A p, q \in DOMAIN cmds :
       (/\ p < q
        /\ cmds[p].aid = cmds[q].aid
        /\ cmds[p].coil = cmds[q].coil
        /\ cmds[p].verb = cmds[q].verb)
       => cmds[q].reqAt - cmds[p].reqAt >= 5

\* C5 (amended): an enqueue request whose dedup lookup succeeds is stored
\* only if no command of the same device, coil and verb requested less than 5
\* seconds earlier is still PENDING; of two such requests at most one is
\* stored while the first one's command is PENDING.  (A command already
\* executed, or a failed lookup, does not suppress the second request.)
C5_DedupWindow ==
    \A k \in DOMAIN submitted :
       LET s == submitted[k] IN
       /\ s.lookup = "rows" => ~s.stored
       /\ (s.stored /\ s.lookup # "error") => Cardinality(SameKeyBefore(s)) = 1
       /\ (~s.stored /\ s.lookup = "none") => SameKeyBefore(s) = {}

C5_Witness ==
    \E k \in DOMAIN submitted :
       /\ submitted[k].lookup = "rows"
       /\ ~submitted[k].stored
       /\ \E c \in SameKeyBefore(submitted[k]) : cmds[c].reqAt < submitted[k].at

\* the account's usage as the claim states it, without the division:
\* used/allocated*100 >= 100 when allocated > 0, any use when it is not
OverLimit(u) ==
    LET alloc == IF usage[u][1] = NULL THEN 0 ELSE usage[u][1][1]
        used == IF usage[u][2] = NULL THEN 0 ELSE usage[u][2][1]
    IN IF alloc > 0 THEN used * 100 >= 100 * alloc ELSE used > 0

\* breaker control enabled and coil address in [0, 9999] (an unset coil
\* address reads as 0)
Eligible(a) ==
    /\ Analyzers[a].Enabled = Some(1)
    /\ \/ Analyzers[a].Coil = NULL
       \/ Analyzers[a].Coil[1] \in 0..9999

SubmissionsFor(a) == { k \in DOMAIN submitted : submitted[k].aid = a }

\* C6: in an enforcement pass every command submitted is for an active,
\* eligible device of an active account and is ON exactly when the account's
\* usage is at least 100 percent, OFF otherwise; every eligible device of an
\* account the pass has processed got exactly one submission; other devices
\* get none.
C6_ThresholdPolicy ==
    /\ \A k \in DOMAIN submitted :
          LET s == submitted[k]
              a == s.aid
              u == Analyzers[a].UserID
          IN /\ UserIsActive[u]
             /\ Analyzers[a].IsActive = 1
             /\ Eligible(a)
             /\ s.coil = (IF Analyzers[a].Coil = NULL THEN 0 ELSE Analyzers[a].Coil[1])
             /\ s.verb = (IF OverLimit(u) THEN "ON" ELSE "OFF")
    /\ \A u \in enforce.done :
          \A a \in DOMAIN Analyzers :
             (Analyzers[a].UserID = u /\ Analyzers[a].IsActive = 1 /\ Eligible(a))
             => Cardinality(SubmissionsFor(a)) = 1
    /\ enforce.status = "completed" => enforce.done = ActiveUsers

C6_Witness ==
    /\ enforce.status = "completed"
    /\ usage[1] = <<Some(100), Some(100)>>
    /\ usage[2] = <<Some(0), Some(0)>>
    /\ \E k \in DOMAIN submitted : submitted[k].aid = 1 /\ submitted[k].verb = "ON"
    /\ \E k \in DOMAIN submitted : submitted[k].aid = 2 /\ submitted[k].verb = "OFF"

\* C7: a dispatch pass executes the (up to batch_size) PENDING commands
\* with the oldest request timestamps, one at a time in non-decreasing
\* request-timestamp order; a PENDING command left unfetched is no older than
\* any command of the batch.
C7_Fifo ==
    batch # <<>> =>
       /\ Len(batch) <= BatchSize
       /\ \A x, y \in DOMAIN batch :
             x < y => /\ batch[x] # batch[y]
                      /\ cmds[batch[x]].reqAt <= cmds[batch[y]].reqAt
       /\ \A p \in Pending \ Range(batch) :
             /\ Len(batch) = BatchSize
             /\ \A x \in DOMAIN batch : cmds[batch[x]].reqAt <= cmds[p].reqAt
       /\ Len(execlog) <= Len(batch)
       /\ \A k \in DOMAIN execlog : execlog[k].id = batch[k]
       /\ pc = "exec" =>
             /\ Len(execlog) = bi - 1
             /\ \A x \in bi..Len(batch) : batch[x] \in Pending

C7_Witness ==
    /\ pc = "exec"
    /\ bi = Len(batch)
    /\ Len(batch) = BatchSize
    /\ Pending \ Range(batch) # {}
    /\ cmds[batch[1]].reqAt < cmds[batch[Len(batch)]].reqAt

\* C8: the sleep that ends a cycle lasts the short interval (1) when the
\* dispatch pass of the cycle executed at least one command and the poll
\* interval when it executed none (nothing fetched, or the fetch raised).
C8_AdaptiveCadence ==
    [][(pc = "sleep" /\ pc' = "enforce")
         => now' - now = (IF Len(execlog) >= 1 THEN ShortInterval ELSE PollInterval)]_vars

C8_Witness ==
    /\ pc = "enforce"
    /\ cycle = 2
    /\ count >= 1
    /\ now = ShortInterval

\* C9: a command whose execution raises gets the fallback result write
\* FAILED unexpected:<detail> (it stays as it was when that write raises
\* too), the later commands of the batch are executed all the same, and the
\* pass returns the number of commands fetched.
C9_BatchIsolation ==
    /\ \A k \in DOMAIN execlog :
          LET e == execlog[k] IN
          e.raised # "none" =>
             /\ e.trace[Len(e.trace)].call = "fallback_update"
             /\ IF e.trace[Len(e.trace)].outcome = "ok"
                THEN /\ cmds[e.id].result = "FAILED"
                     /\ cmds[e.id].err = [tag |-> "unexpected", detail |-> e.raised]
                ELSE cmds[e.id].result = "PENDING"
    /\ (pc = "exec" /\ batch # <<>>) => Len(execlog) = bi - 1
    /\ (pc = "sleep" /\ batch # <<>>) =>
          /\ Len(execlog) = Len(batch)
          /\ \A k \in DOMAIN batch : execlog[k].id = batch[k]
          /\ count = Len(batch)

C9_Witness ==
    /\ pc = "sleep"
    /\ Len(batch) >= 2
    /\ execlog[1].raised # "none"
    /\ execlog[1].trace[Len(execlog[1].trace)] = Call("fallback_update", "raise")
    /\ Len(execlog) = Len(batch)
    /\ count = Len(batch)

\* C10 (as claimed; the code violates it): when processing one active account
\* fails in an enforcement pass, every other active account is still
\* evaluated and its eligible devices get their command submitted.
C10_AccountIsolation ==
    (pc = "dispatch" /\ enforce.failed # 0) =>
       \A u \in ActiveUsers \ {enforce.failed} :
          /\ u \in enforce.done
          /\ \A a \in ActiveAnalyzers(u) : Eligible(a) => SubmissionsFor(a) # {}

\* C11: the only result transitions are PENDING -> SUCCESS and PENDING ->
\* FAILED; a command whose result is SUCCESS or FAILED is never fetched or
\* executed again and its row never changes; a dispatch pass fetches and
\* executes a command at most once.
C11_Lifecycle ==
    [][/\ \A c \in DOMAIN cmds :
            /\ c \in DOMAIN cmds'
            /\ cmds'[c].result # cmds[c].result
                  => /\ cmds[c].result = "PENDING"
                     /\ cmds'[c].result \in {"SUCCESS", "FAILED"}
            /\ cmds[c].result # "PENDING" => cmds'[c] = cmds[c]
       /\ (batch' # batch /\ batch' # <<>>)
            => /\ Range(batch') \subseteq Pending
               /\ \A x, y \in DOMAIN batch' : x # y => batch'[x] # batch'[y]
       /\ Len(execlog') > Len(execlog)
            => LET e == execlog'[Len(execlog')] IN
               /\ cmds[e.id].result = "PENDING"
               /\ \A k \in DOMAIN execlog : execlog[k].id # e.id]_vars

C11_Witness ==
    /\ cycle >= 2
    /\ pc = "exec"
    /\ bi = Len(batch)
    /\ \E c \in DOMAIN cmds : cmds[c].result = "FAILED" /\ c \notin Range(batch)
    /\ \E k \in DOMAIN execlog : cmds[execlog[k].id].result = "FAILED"

\* C12: with the dry-run flag set the worker loop only sleeps the poll
\* interval: no enforcement pass, no fetch, no execution, no enqueue, no
\* result write and no device call ever happens, and the store stays as it was
\* at startup.
C12_DryMode ==
    dry =>
       /\ pc = "dry"
       /\ now = PollInterval * (cycle - 1)
       /\ cmds \in {<<>>, <<UserToggle>>}
       /\ users = <<>> /\ aids = <<>> /\ submitted = <<>> /\ enforce = Idle
       /\ batch = <<>> /\ execlog = <<>> /\ count = 0

C12_Witness ==
    /\ dry
    /\ cycle >= 2
    /\ cmds # <<>>
    /\ cmds[1].result = "PENDING"

\* C13: a failure of the status-snapshot update or of the audit-event insert
\* in _record_do_event never propagates to its caller, and the command's
\* persisted result and error message are what the result write before the
\* call stored, whichever of the two recorder writes fails or succeeds.
C13_RecordingAdvisory ==
    (rec.phase = "done" /\ rec.written # NULL) =>
       /\ rec.raised = "none"
       /\ cmds[1].result = rec.written[1][1]
       /\ cmds[1].err = rec.written[1][2]
       /\ cmds[1].writes = 1
       /\ rec.event # NULL => rec.status # NULL

C13_Witness ==
    /\ rec.phase = "done"
    /\ rec.written # NULL
    /\ rec.trace = <<Call("update_status", "ok"), Call("insert_event", "raise")>>
    /\ cmds[1].result = "SUCCESS"
    /\ rec.status[1].UpdateSource = "api"

\* C14: in active mode the loop never halts and keeps its phase order: a
\* cycle is the enforcement pass, then the dispatch pass, then a sleep; an
\* error raised by either pass (a failed batch fetch included) leads to the
\* next phase, and after the sleep the next cycle starts with enforcement.
PhaseOrder ==
    /\ pc = "enforce" => pc' \in {"account", "dispatch"}
    /\ pc = "account" => pc' \in {"account", "device", "dispatch"}
    /\ pc = "device" => pc' \in {"device", "account", "dispatch"}
    /\ pc = "dispatch" => pc' \in {"exec", "sleep"}
    /\ pc = "exec" => pc' \in {"exec", "sleep"}
    /\ pc = "sleep" => pc' = "enforce" /\ cycle' = cycle + 1
    /\ pc # "sleep" => cycle' = cycle
    /\ pc' \in {"enforce", "account", "device", "dispatch", "exec", "sleep"}

NeverHalts ==
    ~dry => \/ ENABLED Next
            \/ pc = "sleep" /\ cycle = MaxCycles

C14_SchedulerOrder == []NeverHalts /\ [][~dry => PhaseOrder]_vars

C14_Witness ==
    /\ ~dry
    /\ cycle = 2
    /\ pc = "dispatch"
    /\ enforce.status = "aborted"
    /\ \E c \in DOMAIN cmds : cmds[c].result = "PENDING" /\ cmds[c].writes = 0

\* the register value the claim gives a verb, for a coil that reads `coil`
ExpectedValue(verb, coil) ==
    IF verb = "ON" THEN 1
    ELSE IF verb = "OFF" THEN 0
    ELSE IF coil THEN 0 ELSE 1

\* C15 (as claimed; the code violates it): in every connected execution the
\* value for the control register is 1 for ON, 0 for OFF and, for any other
\* verb, the inverse of the coil state read from the device.
C15_VerbResolution ==
    \A k \in DOMAIN execlog :
       LET e == execlog[k]
           c == cmds[e.id]
       IN Connected(e) =>
             /\ e.locals # NULL
             /\ e.locals[1].target_value = ExpectedValue(c.verb, DeviceCoil[c.aid])

\* C16 (as claimed; the code violates it): every execution whose connect()
\* succeeded calls disconnect() exactly once, and makes no read or write after
\* it.
C16_ConnectionRelease ==
    \A k \in DOMAIN execlog :
       LET e == execlog[k] IN
       Connected(e) =>
          /\ NumCalls(e.trace, {"disconnect"}) = 1
          /\ \A x, y \in DOMAIN e.trace :
                (e.trace[x].call = "disconnect" /\ x < y)
                   => e.trace[y].call \notin (DeviceReads \cup DeviceWrites)

\* C17 (as claimed; the code violates it): a connected ON/OFF command whose
\* device does not hold the target state and acknowledges attempt k <=
\* max_retries makes exactly k write_register calls and k - 1 backoff waits,
\* the last write being the acknowledged one, and ends SUCCESS with no error
\* message.
C17_StopAtFirstAck ==
    \A k \in DOMAIN execlog :
       LET e == execlog[k]
           c == cmds[e.id]
           n == RetriesOf(e.id)
           ack == FirstAck[c.aid]
       IN (/\ Connected(e)
           /\ c.verb \in {"ON", "OFF"}
           /\ DeviceCoil[c.aid] # TargetOf(c.verb)
           /\ ack <= n)
          => /\ NumCalls(e.trace, DeviceWrites) = ack
             /\ NumCallsWith(e.trace, DeviceWrites, "true") = 1
             /\ NumCalls(e.trace, Backoffs) = ack - 1
             /\ NumCallsWith(e.trace, {"update_result"}, "ok") = 1
                   => (c.result = "SUCCESS" /\ c.err = NoError)
             /\ c.result # "FAILED"

\* C18 (as claimed; the code violates it): an executed command whose result
\* is SUCCESS has exactly one audit event and one status-snapshot update, one
\* whose result is FAILED for a reason other than connection failure has
\* exactly one audit event, and one still PENDING has none.
C18_AuditTrail ==
    \A k \in DOMAIN execlog :
       LET e == execlog[k]
           c == cmds[e.id]
       IN /\ c.result = "SUCCESS"
             => /\ NumCalls(e.trace, AuditWrites) = 1
                /\ NumCalls(e.trace, StatusWrites) = 1
          /\ (c.result = "FAILED" /\ c.err.tag # "connect_failed")
             => NumCalls(e.trace, AuditWrites) = 1
          /\ c.result = "PENDING" => NumCalls(e.trace, AuditWrites) = 0

\* the executions of command c in an execution log
ExecutionsOf(log, c) == { k \in DOMAIN log : log[k].id = c }

\* C19 (as claimed; the code violates it): when two workers have both fetched
\* and executed the same command with a connection each, and the device does
\* not already hold the target state, each execution makes device writes; and
\* a single worker never executes a command twice nor writes its result twice.
C19_TwoWorkerRace ==
    \A c \in DOMAIN cmds :
       /\ \A x \in ExecutionsOf(execlog, c), y \in ExecutionsOf(w2.execlog, c) :
             (/\ Connected(execlog[x])
              /\ Connected(w2.execlog[y])
              /\ ~(cmds[c].verb \in {"ON", "OFF"}
                     /\ DeviceCoil[cmds[c].aid] = TargetOf(cmds[c].verb)))
             => /\ NumCalls(execlog[x].trace, DeviceWrites) >= 1
                /\ NumCalls(w2.execlog[y].trace, DeviceWrites) >= 1
       /\ ~w2.on => /\ Cardinality(ExecutionsOf(execlog, c)) <= 1
                    /\ cmds[c].writes <= 1

\* the race itself: one command fetched by both workers, executed by both
\* and given two result writes
DoubleExecution ==
    \E c \in DOMAIN cmds :
       /\ c \in Range(batch) /\ c \in Range(w2.batch)
       /\ ExecutionsOf(execlog, c) # {} /\ ExecutionsOf(w2.execlog, c) # {}
       /\ cmds[c].writes = 2

\* C20: with one active worker and a Command Store that answers, every
\* PENDING command eventually has a result other than PENDING, and when a
\* dispatch pass returns none of the commands it fetched is still PENDING.
PassLeavesNonePending ==
    pc = "sleep" => \A c \in Range(batch) : cmds[c].result # "PENDING"

ResultOf(c) == IF c \in DOMAIN cmds THEN cmds[c].result ELSE "absent"

C20_Progress ==
    /\ []PassLeavesNonePending
    /\ \A c \in 1..MaxCmds :
          (~dry /\ ResultOf(c) = "PENDING") ~> (ResultOf(c) \in {"SUCCESS", "FAILED"})

C20_Witness ==
    /\ ~dry
    /\ pc = "sleep"
    /\ cycle = 2
    /\ batch # <<>>
    /\ Len(cmds) = 3
    /\ \A c \in DOMAIN cmds : cmds[c].result = "FAILED"
    /\ \E k \in DOMAIN execlog : Connected(execlog[k])

====
